---- MODULE Spec2Model ----
(***************************************************************************)
(* A model of the SPL token creator (src/src/main.js): the prompt          *)
(* validators, the construction of the five-instruction mint transaction,  *)
(* and main's submit / confirm / report pipeline against a ledger whose    *)
(* responses are chosen nondeterministically.                              *)
(*                                                                         *)
(* Text is modelled as a sequence of one-character strings.  A JavaScript  *)
(* Number is modelled exactly: an IEEE-754 double is the pair (m, e) that  *)
(* stands for m * 2^e, with m an unbounded natural of at most 53 bits,     *)
(* kept as a sequence of limbs (least significant first).                  *)
(***************************************************************************)
EXTENDS Integers, Sequences, FiniteSets

\* ------------------------------------------------------------------------
\* Let(e, F) is F(e) with e evaluated once, whatever the number of times F
\* uses it.

Only(S) == CHOOSE v \in S : TRUE

Let(e, F(_)) == Only({F(v) : v \in {e}})

\* ------------------------------------------------------------------------
\* Unbounded naturals as sequences of limbs in base 2^15 (least significant
\* limb first, no zero top limb; zero is the empty sequence).  They carry
\* the arithmetic of JavaScript Numbers beyond the range of machine integers.

LimbBits == 15

LimbBase == 2 ^ LimbBits

\* The first n limbs of a without their zero top limbs.
RECURSIVE BNormTo(_, _)
BNormTo(a, n) ==
  IF n = 0 THEN <<>>
  ELSE IF a[n] = 0 THEN BNormTo(a, n - 1)
  ELSE SubSeq(a, 1, n)

BNorm(a) == BNormTo(a, Len(a))

\* a * f + c for small f and c (f, c <= 2^15): limb i onwards, with the
\* limbs already produced in out.
RECURSIVE BMulSmallFrom(_, _, _, _, _)
BMulSmallFrom(a, f, i, c, out) ==
  IF i > Len(a) THEN (IF c = 0 THEN out ELSE Append(out, c))
  ELSE Let(a[i] * f + c, LAMBDA p :
         BMulSmallFrom(a, f, i + 1, p \div LimbBase, Append(out, p % LimbBase)))

BMulSmall(a, f, c) == Let(a, LAMBDA v : BMulSmallFrom(v, f, 1, c, <<>>))

\* Quotient and remainder of a by a small divisor f (0 < f <= 2^15), from
\* limb i down; r is the running remainder, q the quotient limbs so far.
RECURSIVE BDivSmallFrom(_, _, _, _, _)
BDivSmallFrom(a, f, i, r, q) ==
  IF i = 0 THEN [q |-> BNorm(q), r |-> r]
  ELSE Let(r * LimbBase + a[i], LAMBDA cur :
         BDivSmallFrom(a, f, i - 1, cur % f, <<cur \div f>> \o q))

BDivSmall(a, f) == Let(a, LAMBDA v : BDivSmallFrom(v, f, Len(v), 0, <<>>))

RECURSIVE SmallBitLen(_)
SmallBitLen(n) == IF n = 0 THEN 0 ELSE 1 + SmallBitLen(n \div 2)

\* Number of bits of a.
BBitLen(a) ==
  Let(a, LAMBDA v :
    IF v = <<>> THEN 0 ELSE LimbBits * (Len(v) - 1) + SmallBitLen(v[Len(v)]))

\* a * 2^n
BShl(a, n) ==
  Let(a, LAMBDA v :
    IF v = <<>> THEN <<>>
    ELSE [i \in 1..(n \div LimbBits) |-> 0] \o BMulSmall(v, 2 ^ (n % LimbBits), 0))

\* floor(a / 2^n), and whether any bit was shifted out (the sticky flag).
BShr(a, n) ==
  Let(<<a, n \div LimbBits>>, LAMBDA v :
    Let(BDivSmall(IF v[2] >= Len(v[1]) THEN <<>> ELSE SubSeq(v[1], v[2] + 1, Len(v[1])), 2 ^ (n % LimbBits)), LAMBDA dm :
      [q |-> dm.q,
       sticky |-> dm.r # 0 \/ \E i \in 1..Len(v[1]) : i <= v[2] /\ v[1][i] # 0]))

\* a * 10^k
RECURSIVE BMulPow10(_, _)
BMulPow10(a, k) ==
  IF k <= 0 THEN a
  ELSE Let(BMulSmall(a, 10, 0), LAMBDA b : BMulPow10(b, k - 1))

\* floor(a / 10^k), and whether the division left a remainder.
RECURSIVE BDivPow10(_, _, _)
BDivPow10(a, k, sticky) ==
  IF k <= 0 THEN [q |-> a, sticky |-> sticky]
  ELSE Let(BDivSmall(a, 10), LAMBDA dm :
         BDivPow10(dm.q, k - 1, sticky \/ dm.r # 0))

\* ------------------------------------------------------------------------
\* IEEE-754 doubles.  A finite non-negative double is [m, e], the value
\* m * 2^e, with m of exactly 53 bits (or zero).  The inputs of the model
\* stay far inside the exponent range, so neither subnormals nor Infinity
\* arise.

MantissaBits == 53

\* A quotient q of more than 53 bits (with the sticky flag of what was
\* already dropped below it) rounded to 53 bits, ties to even; the value
\* stands for q * 2^e.
RoundMantissa(q, sticky, e) ==
  Let(BBitLen(q) - MantissaBits, LAMBDA k :
    Let(BShr(q, k - 1), LAMBDA t :
      Let(BShr(t.q, 1).q, LAMBDA kept :
        Let(IF t.q[1] % 2 = 1 /\ (sticky \/ t.sticky \/ kept[1] % 2 = 1)
            THEN BMulSmall(kept, 1, 1) ELSE kept, LAMBDA m1 :
          IF BBitLen(m1) > MantissaBits
          THEN [m |-> BShr(m1, 1).q, e |-> e + k + 1]
          ELSE [m |-> m1, e |-> e + k]))))

\* The double nearest to n * 10^x * 2^e0, ties to even: what a JavaScript
\* arithmetic operation or string-to-number conversion returns for that
\* exact value.
RoundDouble(n, x, e0) ==
  IF n = <<>> THEN [m |-> <<>>, e |-> 0]
  ELSE Let(IF x >= 0 THEN BMulPow10(n, x) ELSE n, LAMBDA num :
         Let(MantissaBits + 2 - BBitLen(num) + (IF x >= 0 THEN 1 ELSE BBitLen(BMulPow10(<<1>>, -x))), LAMBDA s0 :
           Let(IF s0 > 0 THEN s0 ELSE 0, LAMBDA s :
             Let(BDivPow10(BShl(num, s), -x, FALSE), LAMBDA dv :
               RoundMantissa(dv.q, dv.sticky, e0 - s)))))

\* Whether the double d is a mathematical integer, and that integer.
DoubleIsInteger(d) == d.e >= 0 \/ ~BShr(d.m, -d.e).sticky

DoubleToBig(d) == IF d.e >= 0 THEN BShl(d.m, d.e) ELSE BShr(d.m, -d.e).q

\* Whether the double d equals the decimal n * 10^x exactly.
DoubleEqualsDecimal(d, n, x) ==
  LET lhs == BMulPow10(IF d.e >= 0 THEN BShl(d.m, d.e) ELSE d.m,
                       IF x < 0 THEN -x ELSE 0)
      rhs == BMulPow10(IF d.e < 0 THEN BShl(n, -d.e) ELSE n,
                       IF x >= 0 THEN x ELSE 0)
  IN lhs = rhs

\* ------------------------------------------------------------------------
\* Characters and the two ECMAScript string-to-number conversions the
\* validators and main use.

WhiteSpace == {" "}

HexVal(c) ==
  CASE c = "0" -> 0 [] c = "1" -> 1 [] c = "2" -> 2 [] c = "3" -> 3
    [] c = "4" -> 4 [] c = "5" -> 5 [] c = "6" -> 6 [] c = "7" -> 7
    [] c = "8" -> 8 [] c = "9" -> 9
    [] c \in {"a", "A"} -> 10 [] c \in {"b", "B"} -> 11
    [] c \in {"c", "C"} -> 12 [] c \in {"d", "D"} -> 13
    [] c \in {"e", "E"} -> 14 [] c \in {"f", "F"} -> 15
    [] OTHER -> 99

IsDigitIn(c, radix) == HexVal(c) < radix

\* The first position from i on that holds no white space.
RECURSIVE SkipWhiteSpace(_, _)
SkipWhiteSpace(s, i) ==
  IF i <= Len(s) /\ s[i] \in WhiteSpace THEN SkipWhiteSpace(s, i + 1) ELSE i

\* The last position down from i that holds no white space.
RECURSIVE SkipWhiteSpaceBack(_, _)
SkipWhiteSpaceBack(s, i) ==
  IF i >= 1 /\ s[i] \in WhiteSpace THEN SkipWhiteSpaceBack(s, i - 1) ELSE i

\* String.prototype.trim
Trim(s) == SubSeq(s, SkipWhiteSpace(s, 1), SkipWhiteSpaceBack(s, Len(s)))

\* The first position from i on that holds no digit of the radix.
RECURSIVE DigitRunEnd(_, _, _)
DigitRunEnd(s, i, radix) ==
  IF i <= Len(s) /\ IsDigitIn(s[i], radix) THEN DigitRunEnd(s, i + 1, radix)
  ELSE i

\* The value of the digits s[i], ..., s[j - 1] in the radix, on top of acc.
RECURSIVE DigitsValue(_, _, _, _, _)
DigitsValue(s, i, j, radix, acc) ==
  IF i >= j THEN acc
  ELSE DigitsValue(s, i + 1, j, radix, acc * radix + HexVal(s[i]))

\* The same value as an unbounded natural, for decimal digits.
RECURSIVE BigDigitsValue(_, _, _, _)
BigDigitsValue(s, i, j, acc) ==
  IF i >= j THEN acc
  ELSE Let(BMulSmall(acc, 10, HexVal(s[i])), LAMBDA b : BigDigitsValue(s, i + 1, j, b))

IsSign(s, i) == i <= Len(s) /\ s[i] \in {"+", "-"}

IsMinus(s, i) == i <= Len(s) /\ s[i] = "-"

\* parseInt(string) with no radix argument: leading white space is skipped,
\* a sign and a 0x prefix are honoured, the longest run of digits is read
\* and whatever follows it is ignored; no digit at all gives NaN.  The
\* result is an integer-valued Number, kept as an integer.
ParseInt(s) ==
  Let(SkipWhiteSpace(s, 1), LAMBDA i0 :
    Let(IF IsSign(s, i0) THEN i0 + 1 ELSE i0, LAMBDA i1 :
      Let(i1 + 1 <= Len(s) /\ s[i1] = "0" /\ s[i1 + 1] \in {"x", "X"}, LAMBDA hex :
        Let(<<IF hex THEN i1 + 2 ELSE i1, IF hex THEN 16 ELSE 10>>, LAMBDA b :
          Let(DigitRunEnd(s, b[1], b[2]), LAMBDA j :
            IF j = b[1] THEN [nan |-> TRUE, val |-> 0]
            ELSE Let(DigitsValue(s, b[1], j, b[2], 0), LAMBDA v :
                   [nan |-> FALSE, val |-> IF IsMinus(s, i0) THEN -v ELSE v]))))))

\* The exponent part of a decimal literal at position i of s: e or E, an
\* optional sign and at least one digit; 0 when there is none.
ExponentAt(s, i) ==
  IF ~(i <= Len(s) /\ s[i] \in {"e", "E"}) THEN 0
  ELSE Let(IF IsSign(s, i + 1) THEN i + 2 ELSE i + 1, LAMBDA i1 :
         Let(DigitsValue(s, i1, DigitRunEnd(s, i1, 10), 10, 0), LAMBDA v :
           IF IsMinus(s, i + 1) THEN -v ELSE v))

\* The decimal literal parseFloat reads from the front of s: sign, integer
\* digits, optional fraction, optional exponent; trailing text is ignored.
\* The literal denotes n * 10^x.
DecimalLiteral(s) ==
  Let(SkipWhiteSpace(s, 1), LAMBDA i0 :
    Let(IF IsSign(s, i0) THEN i0 + 1 ELSE i0, LAMBDA i1 :
      Let(DigitRunEnd(s, i1, 10), LAMBDA i2 :
        Let(i2 <= Len(s) /\ s[i2] = ".", LAMBDA dot :
          Let(IF dot THEN DigitRunEnd(s, i2 + 1, 10) ELSE i2, LAMBDA i3 :
            Let(IF dot THEN i3 - i2 - 1 ELSE 0, LAMBDA fracLen :
              IF i2 - i1 + fracLen = 0
              THEN [nan |-> TRUE, neg |-> FALSE, n |-> <<>>, x |-> 0]
              ELSE Let(BigDigitsValue(s, i1, i2, <<>>), LAMBDA ip :
                     [nan |-> FALSE, neg |-> IsMinus(s, i0),
                      n |-> IF dot THEN BigDigitsValue(s, i2 + 1, i3, ip) ELSE ip,
                      x |-> ExponentAt(s, i3) - fracLen])))))))

\* parseFloat(string): the double nearest to the decimal literal, or NaN.
ParseFloat(s) ==
  Let(DecimalLiteral(s), LAMBDA lit :
    IF lit.nan THEN [nan |-> TRUE, neg |-> FALSE, m |-> <<>>, e |-> 0]
    ELSE Let(RoundDouble(lit.n, lit.x, 0), LAMBDA d :
           [nan |-> FALSE, neg |-> lit.neg, m |-> d.m, e |-> d.e]))

\* x * 10^k for a finite non-negative double x and 0 <= k <= 22 (10^k is
\* then itself a double, so Math.pow(10, k) is exact): the exact product
\* rounded to the nearest double.
DoubleTimesPow10(x, k) == Let(<<x, k>>, LAMBDA v : RoundDouble(v[1].m, v[2], v[1].e))

\* ------------------------------------------------------------------------
\* The prompt validators.  A validator returns true or a message; here
\* [ok, reason].

Accept == [ok |-> TRUE, reason |-> ""]

Reject(msg) == [ok |-> FALSE, reason |-> msg]

validateDecimals(value) ==
  Let(ParseInt(value), LAMBDA parsed :
    IF parsed.nan THEN Reject("Please enter a valid number")
    ELSE IF parsed.val < 0 \/ parsed.val > 9
         THEN Reject("Decimals must be between 0 and 9")
    ELSE Accept)

validateSupply(value) ==
  Let(ParseFloat(value), LAMBDA parsed :
    IF parsed.nan THEN Reject("Please enter a valid number")
    ELSE IF parsed.neg \/ parsed.m = <<>>
         THEN Reject("Supply must be greater than 0")
    ELSE Accept)

validateTokenName(value) ==
  IF Trim(value) = <<>> THEN Reject("Token name cannot be empty")
  ELSE IF Len(value) > 32
       THEN Reject("Token name must be 32 characters or less")
  ELSE Accept

validateSymbol(value) ==
  IF Trim(value) = <<>> THEN Reject("Symbol cannot be empty")
  ELSE IF Len(value) > 10 THEN Reject("Symbol must be 10 characters or less")
  ELSE Accept

\* new URL(value) on a text given as its parts (scheme, ":", "//", host,
\* path): it parses when the text opens with a scheme and a colon and, for
\* the schemes that need one, names a host.
SpecialSchemes == {"http", "https"}

UrlSchemes == SpecialSchemes \cup {"ipfs", "data"}

UrlParses(value) ==
  /\ Len(value) >= 2
  /\ value[1] \in UrlSchemes
  /\ value[2] = ":"
  /\ value[1] \in SpecialSchemes =>
       Len(value) >= 4 /\ value[3] = "//" /\ value[4] \notin {"", "/"}

validateImageUrl(value) ==
  IF UrlParses(value) THEN Accept ELSE Reject("Please enter a valid URL")

\* A royalty validator that lets every input through.
validateRoyaltyUnchecked(value) == Accept

validateRoyalty(value) ==
  Let(ParseInt(value), LAMBDA parsed :
    IF parsed.nan THEN Reject("Please enter a valid number")
    ELSE IF parsed.val < 0 \/ parsed.val > 10000
         THEN Reject("Royalty must be between 0 and 10000 basis points (0-100%)")
    ELSE Accept)

\* A secret-key text is described by what decoding it gives: whether every
\* character is in the base-58 alphabet (bs58.decode throws otherwise), the
\* number of bytes it decodes to, and the public key of the keypair those
\* bytes hold ("none" when the last 32 bytes are not the public key of the
\* first 32).
Bs58Decode(value) == [threw |-> ~value.b58, length |-> value.bytes]

validateSecretKey(value) ==
  LET decoded == Bs58Decode(value)
  IN IF decoded.threw THEN Reject("Invalid secret key format")
     ELSE IF decoded.length = 64 THEN Accept
     ELSE Reject("Invalid secret key length")

\* Keypair.fromSecretKey: throws on a wrong size or an inconsistent pair.
KeypairFromSecretKey(value) ==
  LET decoded == Bs58Decode(value)
  IN IF decoded.threw THEN [threw |-> TRUE, message |-> "Non-base58 character", publicKey |-> "none"]
     ELSE IF decoded.length # 64
          THEN [threw |-> TRUE, message |-> "bad secret key size", publicKey |-> "none"]
     ELSE IF value.pub = "none"
          THEN [threw |-> TRUE, message |-> "provided secretKey is invalid", publicKey |-> "none"]
     ELSE [threw |-> FALSE, message |-> "", publicKey |-> value.pub]

\* ------------------------------------------------------------------------
\* Derived addresses and the instruction list.

TOKEN_PROGRAM_ID == "TokenProgram"

TOKEN_METADATA_PROGRAM_ID_DIST == "TokenMetadataProgram"

\* getAssociatedTokenAddress(mint, owner): a pure function of the pair.
getAssociatedTokenAddress(mint, owner) == <<"ata", owner, TOKEN_PROGRAM_ID, mint>>

\* PublicKey.findProgramAddressSync(["metadata", program, mint], program)
MetadataPDA(mint) == <<"metadata", TOKEN_METADATA_PROGRAM_ID_DIST, mint>>

NaN == [nan |-> TRUE, neg |-> FALSE, m |-> <<>>, e |-> 0]

\* token.totalSupply * Math.pow(10, token.decimals), in double arithmetic.
MintAmount(token) ==
  IF token.decimals.nan \/ token.totalSupply.nan THEN NaN
  ELSE Let(DoubleTimesPow10(token.totalSupply, token.decimals.val), LAMBDA d :
         [nan |-> FALSE, neg |-> token.totalSupply.neg, m |-> d.m, e |-> d.e])

\* createMintToInstruction converts its amount with BigInt(amount), which
\* throws a RangeError for a Number that is not an integer.
BigIntThrows(amount) == Let(amount, LAMBDA a : a.nan \/ ~DoubleIsInteger(a))

\* A variant of the instruction list that mints before the associated
\* account exists.
InstructionListMintFirst(payer, mintKeypair, token, tokenMetadata, destinationWallet, mintAuthority, requiredBalance) ==
  LET tokenATA == getAssociatedTokenAddress(mintKeypair, destinationWallet)
  IN << [kind |-> "createAccount", fromPubkey |-> payer,
         newAccountPubkey |-> mintKeypair, space |-> "MINT_SIZE",
         lamports |-> requiredBalance, programId |-> TOKEN_PROGRAM_ID],
        [kind |-> "initializeMint", mint |-> mintKeypair,
         decimals |-> token.decimals, mintAuthority |-> mintAuthority,
         freezeAuthority |-> "null", programId |-> TOKEN_PROGRAM_ID],
        [kind |-> "mintTo", mint |-> mintKeypair, destination |-> tokenATA,
         authority |-> mintAuthority, amount |-> MintAmount(token)],
        [kind |-> "createAssociatedTokenAccount", payer |-> payer,
         associatedToken |-> tokenATA, owner |-> payer,
         mint |-> mintKeypair],
        [kind |-> "createMetadataAccountV3", metadata |-> MetadataPDA(mintKeypair),
         mint |-> mintKeypair, mintAuthority |-> mintAuthority,
         payer |-> payer, updateAuthority |-> mintAuthority,
         data |-> tokenMetadata, isMutable |-> TRUE,
         collectionDetails |-> "null"] >>

\* The instructions array of createMintTokenTransaction.
InstructionList(payer, mintKeypair, token, tokenMetadata, destinationWallet, mintAuthority, requiredBalance) ==
  LET metadataPDA == MetadataPDA(mintKeypair)
      tokenATA    == getAssociatedTokenAddress(mintKeypair, destinationWallet)
  IN << [kind |-> "createAccount", fromPubkey |-> payer,
         newAccountPubkey |-> mintKeypair, space |-> "MINT_SIZE",
         lamports |-> requiredBalance, programId |-> TOKEN_PROGRAM_ID],
        [kind |-> "initializeMint", mint |-> mintKeypair,
         decimals |-> token.decimals, mintAuthority |-> mintAuthority,
         freezeAuthority |-> "null", programId |-> TOKEN_PROGRAM_ID],
        [kind |-> "createAssociatedTokenAccount", payer |-> payer,
         associatedToken |-> tokenATA, owner |-> payer,
         mint |-> mintKeypair],
        [kind |-> "mintTo", mint |-> mintKeypair, destination |-> tokenATA,
         authority |-> mintAuthority, amount |-> MintAmount(token)],
        [kind |-> "createMetadataAccountV3", metadata |-> metadataPDA,
         mint |-> mintKeypair, mintAuthority |-> mintAuthority,
         payer |-> payer, updateAuthority |-> mintAuthority,
         data |-> [name |-> tokenMetadata.name,
                   symbol |-> tokenMetadata.symbol,
                   uri |-> tokenMetadata.uri,
                   sellerFeeBasisPoints |-> tokenMetadata.sellerFeeBasisPoints,
                   creators |-> "null", collection |-> "null",
                   uses |-> "null"],
         isMutable |-> TRUE, collectionDetails |-> "null"] >>

\* The synchronous part of createMintTokenTransaction between the rent
\* lookup and the blockhash lookup: the instruction list, or the exception
\* createMintToInstruction raises.
BuildInstructions(payer, mintKeypair, token, tokenMetadata, destinationWallet, mintAuthority, requiredBalance) ==
  IF BigIntThrows(MintAmount(token))
  THEN [threw |-> TRUE, instructions |-> <<>>]
  ELSE [threw |-> FALSE,
        instructions |-> InstructionList(payer, mintKeypair, token,
                                         tokenMetadata, destinationWallet,
                                         mintAuthority, requiredBalance)]

\* main, lines 395-408: the token and its metadata from the answers.
TokenOf(ans) ==
  [decimals |-> ParseInt(ans.decimals), totalSupply |-> ParseFloat(ans.supply)]

TokenMetadataOf(ans) ==
  [name |-> ans.tokenName, symbol |-> ans.symbol, uri |-> ans.image,
   sellerFeeBasisPoints |-> ParseInt(ans.royalty),
   creators |-> "null", collection |-> "null", uses |-> "null"]

\* ------------------------------------------------------------------------
\* Bounds and input sets.

\* How many times the ledger's block height advances during a run.
MaxTicks == 3

\* Longest text handed to validateDecimals on its own.
MaxStrLen == 3

\* main adds this to the current block height for the confirmation ceiling;
\* it is also the number of blocks for which the ledger accepts a blockhash
\* (getLatestBlockhash reports lastValidBlockHeight = height + 150).
HeightSlack == 150

\* The ledger advances by one block, or past a whole validity window.
Jumps == {1, HeightSlack + 1}

WalletKeys == {"walletA", "walletB"}

MintKeys == {"mintX", "mintY"}

RentFigures == {1461600, 1500000}

LedgerFees == {10000}

BlockTimes == {1700000000}

SimulationErrors == {"InsufficientFundsForRent", "AccountAlreadyInUse"}

ExecutionErrors == {"InstructionError"}

Repeat(c, n) == [i \in 1..n |-> c]

NetworkChoices == {"devnet", "mainnet"}

DecimalsInputs == {<<>>, <<"0">>, <<"1", "0">>, <<"a">>}

SupplyInputs == {<<>>, <<"1", ".", "5">>, <<"0">>, <<"x">>}

TokenNameInputs == {<<>>, <<" ">>, <<"M", "y", "T", "o", "k", "e", "n">>, Repeat("n", 33)}

SymbolInputs == {<<>>, <<"M", "T", "K">>, Repeat("S", 11)}

ImageInputs == {<<"https", ":", "//", "example.com", "/t.png">>, <<"example.com", "/t.png">>}

RoyaltyInputs == {<<>>, <<"1", "0", "0", "0", "1">>, <<"%">>}

SecretKeyInputs == {[b58 |-> TRUE, bytes |-> 64, pub |-> "walletA"], [b58 |-> TRUE, bytes |-> 64, pub |-> "walletB"], [b58 |-> TRUE, bytes |-> 64, pub |-> "none"], [b58 |-> TRUE, bytes |-> 32, pub |-> "none"], [b58 |-> FALSE, bytes |-> 0, pub |-> "none"]}

\* The defaults of the prompts (an empty input takes the default).
DefaultDecimals == <<"9">>

DefaultSupply == <<"1", "0", "0", "0", "0", "0", "0">>

DefaultRoyalty == <<"0">>

\* inquirer's input prompt: an empty input stands for the default.
FilterInput(input, default) == IF input = <<>> THEN default ELSE input

\* ------------------------------------------------------------------------
\* State.

VARIABLES
  pc,              \* where main is
  question,        \* index of the prompt askQuestions is showing
  answers,         \* the answers accepted so far
  promptError,     \* the message of the last rejected input
  userWallet,      \* public key of the payer keypair
  mintKeypair,     \* public key of the generated mint keypair
  token,           \* {decimals, totalSupply}
  tokenMetadata,   \* name, symbol, uri, sellerFeeBasisPoints
  instructions,    \* the instruction list built so far
  latestBlockhash, \* what getLatestBlockhash returned
  transaction,     \* the compiled, signed transaction
  txid,            \* what sendTransaction returned
  strategy,        \* the argument of confirmTransaction
  confirmErr,      \* value.err of confirmTransaction's result
  announced,       \* "Token created successfully!" was printed
  report,          \* what displaySuccessInfo printed
  exitCode,        \* process exit code (-1 while running)
  error,           \* what the catch block of main printed
  netLog,          \* the RPC calls made, in order
  height,          \* ledger: current block height
  ticks,           \* ledger: number of advances so far
  ledgerTx,        \* ledger: the submitted transaction and its fate
  fn               \* a function applied on its own: arguments and result

vars == <<pc, question, answers, promptError, userWallet, mintKeypair, token, tokenMetadata, instructions, latestBlockhash, transaction, txid, strategy, confirmErr, announced, report, exitCode, error, netLog, height, ticks, ledgerTx, fn>>

Questions == <<"network", "decimals", "supply", "tokenName", "symbol", "image", "royalty", "secretKey">>

NoAnswers == [network |-> "", decimals |-> <<>>, supply |-> <<>>, tokenName |-> <<>>, symbol |-> <<>>, image |-> <<>>, royalty |-> <<>>, secretKey |-> [b58 |-> FALSE, bytes |-> 0, pub |-> "none"]]

NoToken == [decimals |-> [nan |-> TRUE, val |-> 0], totalSupply |-> NaN]

NoBlockhash == [blockhash |-> -1, lastValidBlockHeight |-> -1]

NoTransaction == [payerKey |-> "none", recentBlockhash |-> -1, instructions |-> <<>>, signatures |-> {}]

NoStrategy == [signature |-> "", blockhash |-> -1, lastValidBlockHeight |-> -1]

NoReport == [printed |-> FALSE, txid |-> "", fees |-> 0, blockTime |-> 0, tokenATA |-> <<>>, mintAddress |-> "none"]

NoError == [at |-> "", message |-> ""]

NoLedgerTx == [status |-> "none", blockhash |-> -1, instructions |-> <<>>, signers |-> {}, fee |-> 0, blockTime |-> 0, err |-> ""]

NoFn == [op |-> "none"]

\* Every variable of main before it starts, with main at position p.
MainAt(p) ==
  /\ pc = p
  /\ question = 1
  /\ answers = NoAnswers
  /\ promptError = ""
  /\ userWallet = "none"
  /\ mintKeypair = "none"
  /\ token = NoToken
  /\ tokenMetadata = TokenMetadataOf(NoAnswers)
  /\ instructions = <<>>
  /\ latestBlockhash = NoBlockhash
  /\ transaction = NoTransaction
  /\ txid = ""
  /\ strategy = NoStrategy
  /\ confirmErr = ""
  /\ announced = FALSE
  /\ report = NoReport
  /\ exitCode = -1
  /\ error = NoError
  /\ netLog = <<>>
  /\ height = 0
  /\ ticks = 0
  /\ ledgerTx = NoLedgerTx

Init == MainAt("ask") /\ fn = NoFn

runVars == <<userWallet, mintKeypair, token, tokenMetadata, instructions, latestBlockhash, transaction, txid, strategy, confirmErr, announced, report, exitCode, error, netLog>>

ledgerVars == <<height, ticks, ledgerTx>>

\* ------------------------------------------------------------------------
\* askQuestions: one prompt after the other; a rejected input shows the
\* validator's message and asks again.

Prompt(name, value, verdict) ==
  /\ pc = "ask"
  /\ Questions[question] = name
  /\ IF verdict.ok
     THEN /\ answers' = [answers EXCEPT ![name] = value]
          /\ promptError' = ""
          /\ question' = question + 1
          /\ pc' = IF question = Len(Questions) THEN "connect" ELSE "ask"
     ELSE /\ promptError' = verdict.reason
          /\ UNCHANGED <<answers, question, pc>>
  /\ UNCHANGED <<runVars, ledgerVars, fn>>

AskNetwork == \E choice \in NetworkChoices : Prompt("network", choice, Accept)

AskDecimals ==
  \E input \in DecimalsInputs :
    LET value == FilterInput(input, DefaultDecimals)
    IN Prompt("decimals", value, validateDecimals(value))

AskSupply ==
  \E input \in SupplyInputs :
    LET value == FilterInput(input, DefaultSupply)
    IN Prompt("supply", value, validateSupply(value))

AskTokenName ==
  \E input \in TokenNameInputs : Prompt("tokenName", input, validateTokenName(input))

AskSymbol ==
  \E input \in SymbolInputs : Prompt("symbol", input, validateSymbol(input))

AskImage ==
  \E input \in ImageInputs : Prompt("image", input, validateImageUrl(input))

AskRoyalty ==
  \E input \in RoyaltyInputs :
    LET value == FilterInput(input, DefaultRoyalty)
    IN Prompt("royalty", value, validateRoyalty(value))

AskSecretKey ==
  \E input \in SecretKeyInputs : Prompt("secretKey", input, validateSecretKey(input))

\* ------------------------------------------------------------------------
\* main after the prompts.  Each action is one awaited call with the
\* synchronous code that follows it up to the next await.

\* The catch block of main: print error.message, process.exit(1).
Fail(at, message) ==
  /\ pc' = "done"
  /\ exitCode' = 1
  /\ error' = [at |-> at, message |-> message]

Call(name) == netLog' = Append(netLog, name)

\* Lines 382-387: the network profile and the Connection object (no request
\* is sent), then a one second sleep.
Connect ==
  /\ pc = "connect"
  /\ pc' = "wallet"
  /\ UNCHANGED <<question, answers, promptError, runVars, ledgerVars, fn>>

\* Lines 389-422: the payer keypair, the token, its metadata, and a fresh
\* mint keypair.
LoadWallet ==
  /\ pc = "wallet"
  /\ LET kp == KeypairFromSecretKey(answers.secretKey)
     IN IF kp.threw
        THEN /\ Fail("Keypair.fromSecretKey", kp.message)
             /\ UNCHANGED <<userWallet, mintKeypair, token, tokenMetadata>>
        ELSE /\ userWallet' = kp.publicKey
             /\ token' = TokenOf(answers)
             /\ tokenMetadata' = TokenMetadataOf(answers)
             /\ mintKeypair' \in MintKeys
             /\ pc' = "rent"
             /\ UNCHANGED <<exitCode, error>>
  /\ UNCHANGED <<question, answers, promptError, instructions, latestBlockhash, transaction, txid, strategy, confirmErr, announced, report, netLog, ledgerVars, fn>>

\* createMintTokenTransaction, lines 199-270: the rent lookup, then the
\* instruction list.  main passes userWallet as payer, as destinationWallet
\* and as mintAuthority.
GetMinimumBalanceForRentExemptMint ==
  /\ pc = "rent"
  /\ Call("getMinimumBalanceForRentExemptMint")
  /\ \E ok \in BOOLEAN, requiredBalance \in RentFigures :
       IF ~ok
       THEN /\ Fail("getMinimumBalanceForRentExemptMint", "fetch failed")
            /\ UNCHANGED instructions
       ELSE LET built == BuildInstructions(userWallet, mintKeypair, token, tokenMetadata, userWallet, userWallet, requiredBalance)
            IN IF built.threw
               THEN /\ Fail("createMintToInstruction", "The number cannot be converted to a BigInt because it is not an integer")
                    /\ UNCHANGED instructions
               ELSE /\ instructions' = built.instructions
                    /\ pc' = "blockhash"
                    /\ UNCHANGED <<exitCode, error>>
  /\ UNCHANGED <<question, answers, promptError, userWallet, mintKeypair, token, tokenMetadata, latestBlockhash, transaction, txid, strategy, confirmErr, announced, report, ledgerVars, fn>>

\* Lines 274-281 and 434: the blockhash lookup, the compiled message, and
\* the two signatures.
GetLatestBlockhash ==
  /\ pc = "blockhash"
  /\ Call("getLatestBlockhash")
  /\ \E ok \in BOOLEAN :
       IF ~ok
       THEN /\ Fail("getLatestBlockhash", "fetch failed")
            /\ UNCHANGED <<latestBlockhash, transaction>>
       ELSE /\ latestBlockhash' = [blockhash |-> height, lastValidBlockHeight |-> height + HeightSlack]
            /\ transaction' = [payerKey |-> userWallet, recentBlockhash |-> height, instructions |-> instructions, signatures |-> {userWallet, mintKeypair}]
            /\ pc' = "send"
            /\ UNCHANGED <<exitCode, error>>
  /\ UNCHANGED <<question, answers, promptError, userWallet, mintKeypair, token, tokenMetadata, instructions, txid, strategy, confirmErr, announced, report, ledgerVars, fn>>

\* The ledger accepts a transaction while its blockhash is still valid.
BlockhashValid(blockhash) == height <= blockhash + HeightSlack

\* Line 436: connection.sendTransaction(transaction), with its preflight
\* simulation.  It returns the signature, or throws: the request fails, the
\* blockhash is no longer known, or the simulation reports a program error.
SendTransaction ==
  /\ pc = "send"
  /\ Call("sendTransaction")
  /\ \E outcome \in {"sent", "fetch failed"} \cup SimulationErrors :
       IF outcome = "fetch failed"
       THEN /\ Fail("sendTransaction", "fetch failed")
            /\ UNCHANGED <<txid, ledgerTx>>
       ELSE IF ~BlockhashValid(transaction.recentBlockhash)
       THEN /\ Fail("sendTransaction", "BlockhashNotFound")
            /\ UNCHANGED <<txid, ledgerTx>>
       ELSE IF outcome \in SimulationErrors
       THEN /\ Fail("sendTransaction", outcome)
            /\ UNCHANGED <<txid, ledgerTx>>
       ELSE /\ txid' = "signature"
            /\ ledgerTx' = [NoLedgerTx EXCEPT !.status = "pending", !.blockhash = transaction.recentBlockhash, !.instructions = transaction.instructions, !.signers = transaction.signatures]
            /\ pc' = "height"
            /\ UNCHANGED <<exitCode, error>>
  /\ UNCHANGED <<question, answers, promptError, userWallet, mintKeypair, token, tokenMetadata, instructions, latestBlockhash, transaction, strategy, confirmErr, announced, report, height, ticks, fn>>

\* Line 440: the argument of confirmTransaction is evaluated first, and it
\* holds an awaited getBlockHeight().
GetBlockHeight ==
  /\ pc = "height"
  /\ Call("getBlockHeight")
  /\ \E ok \in BOOLEAN :
       IF ~ok
       THEN /\ Fail("getBlockHeight", "fetch failed")
            /\ UNCHANGED strategy
       ELSE /\ strategy' = [signature |-> txid, blockhash |-> transaction.recentBlockhash, lastValidBlockHeight |-> height + HeightSlack]
            /\ pc' = "confirm"
            /\ UNCHANGED <<exitCode, error>>
  /\ UNCHANGED <<question, answers, promptError, userWallet, mintKeypair, token, tokenMetadata, instructions, latestBlockhash, transaction, txid, confirmErr, announced, report, ledgerVars, fn>>

\* Lines 437-443: confirmTransaction resolves once the signature has
\* landed, with {value: {err}}: err is null, or the execution error of a
\* transaction that landed and failed.  main does not read the result and
\* prints "Token created successfully!".
ConfirmTransactionLanded ==
  /\ pc = "confirm"
  /\ ledgerTx.status \in {"ok", "failed"}
  /\ Call("confirmTransaction")
  /\ confirmErr' = ledgerTx.err
  /\ announced' = TRUE
  /\ pc' = "details"
  /\ UNCHANGED <<question, answers, promptError, userWallet, mintKeypair, token, tokenMetadata, instructions, latestBlockhash, transaction, txid, strategy, report, exitCode, error, ledgerVars, fn>>

\* A variant of the expiry that goes back to submit the same transaction.
ConfirmTransactionExpiredResubmits ==
  /\ pc = "confirm"
  /\ ledgerTx.status = "pending"
  /\ height > strategy.lastValidBlockHeight
  /\ Call("confirmTransaction")
  /\ pc' = "send"
  /\ UNCHANGED <<question, answers, promptError, userWallet, mintKeypair, token, tokenMetadata, instructions, latestBlockhash, transaction, txid, strategy, confirmErr, announced, report, exitCode, error, ledgerVars, fn>>

\* confirmTransaction throws TransactionExpiredBlockheightExceededError
\* once the block height has passed strategy.lastValidBlockHeight and the
\* signature has not landed.
ConfirmTransactionExpired ==
  /\ pc = "confirm"
  /\ ledgerTx.status = "pending"
  /\ height > strategy.lastValidBlockHeight
  /\ Call("confirmTransaction")
  /\ Fail("confirmTransaction", "block height exceeded")
  /\ UNCHANGED <<question, answers, promptError, userWallet, mintKeypair, token, tokenMetadata, instructions, latestBlockhash, transaction, txid, strategy, confirmErr, announced, report, ledgerVars, fn>>

\* x || 0
OrZero(present, x) == IF present /\ x # 0 THEN x ELSE 0

\* displaySuccessInfo, lines 298-373: the transaction details (null when
\* the node does not have them yet), then the report.
GetTransaction ==
  /\ pc = "details"
  /\ Call("getTransaction")
  /\ \E outcome \in {"details", "null", "fetch failed"} :
       IF outcome = "fetch failed"
       THEN /\ Fail("getTransaction", "fetch failed")
            /\ UNCHANGED report
       ELSE /\ report' = [printed |-> TRUE, txid |-> txid,
                          fees |-> OrZero(outcome = "details", ledgerTx.fee),
                          blockTime |-> OrZero(outcome = "details", ledgerTx.blockTime),
                          tokenATA |-> getAssociatedTokenAddress(mintKeypair, userWallet),
                          mintAddress |-> mintKeypair]
            /\ pc' = "done"
            /\ exitCode' = 0
            /\ UNCHANGED error
  /\ UNCHANGED <<question, answers, promptError, userWallet, mintKeypair, token, tokenMetadata, instructions, latestBlockhash, transaction, txid, strategy, confirmErr, announced, ledgerVars, fn>>

\* ------------------------------------------------------------------------
\* The ledger.

\* The block height advances.  Heights are counted from the blockhash
\* lookup on: what happened before it plays no part in the run.
Tick ==
  /\ pc \in {"send", "height", "confirm"}
  /\ ticks < MaxTicks
  /\ \E d \in Jumps : height' = height + d
  /\ ticks' = ticks + 1
  /\ UNCHANGED <<pc, question, answers, promptError, runVars, ledgerTx, fn>>

\* A submitted transaction is included in a block while its blockhash is
\* valid: it executes, or fails in execution; either way the fee is charged.
Land ==
  /\ ledgerTx.status = "pending"
  /\ BlockhashValid(ledgerTx.blockhash)
  /\ \E err \in {""} \cup ExecutionErrors, fee \in LedgerFees, time \in BlockTimes :
       ledgerTx' = [ledgerTx EXCEPT !.status = IF err = "" THEN "ok" ELSE "failed", !.err = err, !.fee = fee, !.blockTime = time]
  /\ UNCHANGED <<pc, question, answers, promptError, runVars, height, ticks, fn>>

Next ==
  \/ AskNetwork
  \/ AskDecimals
  \/ AskSupply
  \/ AskTokenName
  \/ AskSymbol
  \/ AskImage
  \/ AskRoyalty
  \/ AskSecretKey
  \/ Connect
  \/ LoadWallet
  \/ GetMinimumBalanceForRentExemptMint
  \/ GetLatestBlockhash
  \/ SendTransaction
  \/ GetBlockHeight
  \/ ConfirmTransactionLanded
  \/ ConfirmTransactionExpired
  \/ GetTransaction
  \/ Tick
  \/ Land

Spec == Init /\ [][Next]_vars

\* ------------------------------------------------------------------------
\* validateDecimals on its own: every text of at most MaxStrLen characters
\* is validated; an accepted text is then parsed as main parses it and put
\* into the mint-initialisation instruction.

DecimalsChars == {"0", "1", "5", "7", "9", "-", ".", "a", "x", " "}

Texts(chars, n) == UNION {[1..k -> chars] : k \in 0..n}

InitDecimals ==
  /\ MainAt("fn")
  /\ fn \in {[op |-> "validateDecimals", value |-> t, stage |-> "input", verdict |-> Accept, decimals |-> [nan |-> TRUE, val |-> 0]] : t \in Texts(DecimalsChars, MaxStrLen)}

ValidateDecimalsText ==
  /\ fn.stage = "input"
  /\ \E verdict \in {validateDecimals(fn.value)} :
       fn' = [fn EXCEPT !.verdict = verdict, !.stage = IF verdict.ok THEN "accepted" ELSE "rejected"]
  /\ UNCHANGED <<pc, question, answers, promptError, runVars, ledgerVars>>

UseDecimals ==
  /\ fn.stage = "accepted"
  /\ \E ans \in {[NoAnswers EXCEPT !.decimals = fn.value, !.supply = DefaultSupply]} :
       fn' = [fn EXCEPT !.stage = "used", !.decimals = InstructionList("walletA", "mintX", TokenOf(ans), TokenMetadataOf(ans), "walletA", "walletA", 0)[2].decimals]
  /\ UNCHANGED <<pc, question, answers, promptError, runVars, ledgerVars>>

NextDecimals == ValidateDecimalsText \/ UseDecimals

SpecDecimals == InitDecimals /\ [][NextDecimals]_vars

\* ------------------------------------------------------------------------
\* createMintTokenTransaction's instruction list on its own, for any payer
\* and destination wallet and a range of supplies and decimals: the texts
\* are validated as the prompts validate them, parsed as main parses them,
\* and the instructions are built.

BuildSupplies == {
  <<"1", "0", "0", "0", "0", "0", "0">>,
  <<"1", ".", "5">>,
  <<"0", ".", "0", "7">>,
  <<"1", "e", "3">>,
  <<"1", "2", "3", "4", "5", "6", "7", "8", "9", ".", "1", "2", "3", "4", "5", "6", "7", "8", "9">>,
  <<"9", "0", "0", "7", "1", "9", "9", "2", "5", "4", "7", "4", "0", "9", "9", "1">>,
  <<"9", "0", "0", "7", "1", "9", "9", "2", "5", "4", "7", "4", "0", "9", "9", "3">>,
  <<"1", "0", "0", "0", "0", "0", "0", "0", "0", "0", "0", "0">>,
  <<"0">>,
  <<"-", "5">>,
  <<"a", "b", "c">> }

BuildDecimals == {<<"0">>, <<"1">>, <<"2">>, <<"3">>, <<"4">>, <<"5">>, <<"6">>, <<"7">>, <<"8">>, <<"9">>, <<"1", "0">>}

InitBuild ==
  /\ MainAt("fn")
  /\ fn \in {[op |-> "createMintTokenTransaction", payer |-> p, destinationWallet |-> w, mintKeypair |-> k, supply |-> t, decimals |-> d, stage |-> "input", built |-> [threw |-> FALSE, instructions |-> <<>>]] : p \in WalletKeys, w \in WalletKeys, k \in MintKeys, t \in BuildSupplies, d \in BuildDecimals}

ValidateTokenTexts ==
  /\ fn.op = "createMintTokenTransaction"
  /\ fn.stage = "input"
  /\ fn' = [fn EXCEPT !.stage = IF validateDecimals(fn.decimals).ok /\ validateSupply(fn.supply).ok THEN "accepted" ELSE "rejected"]
  /\ UNCHANGED <<pc, question, answers, promptError, runVars, ledgerVars>>

BuildTransaction ==
  /\ fn.op = "createMintTokenTransaction"
  /\ fn.stage = "accepted"
  /\ \E ans \in {[NoAnswers EXCEPT !.decimals = fn.decimals, !.supply = fn.supply]}, requiredBalance \in RentFigures :
       \E built \in {BuildInstructions(fn.payer, fn.mintKeypair, TokenOf(ans), TokenMetadataOf(ans), fn.destinationWallet, fn.payer, requiredBalance)} :
         fn' = [fn EXCEPT !.stage = IF built.threw THEN "threw" ELSE "built", !.built = built]
  /\ UNCHANGED <<pc, question, answers, promptError, runVars, ledgerVars>>

NextBuild == ValidateTokenTexts \/ BuildTransaction

SpecBuild == InitBuild /\ [][NextBuild]_vars

\* ------------------------------------------------------------------------
\* Properties of main's pipeline (specification Spec).

Kinds(ixs) == [i \in 1..Len(ixs) |-> ixs[i].kind]

InstructionKinds == <<"createAccount", "initializeMint", "createAssociatedTokenAccount", "mintTo", "createMetadataAccountV3">>

\* Instructions 2-5 work on the account instruction 1 allocates.
OnOneMint(ixs) == \A i \in 2..Len(ixs) : ixs[i].mint = ixs[1].newAccountPubkey

SendCount == Cardinality({i \in 1..Len(netLog) : netLog[i] = "sendTransaction"})

\* C1: whatever the answers, the payer, the mint keypair and the rent
\* figure, the instruction list that is built, compiled into the message and
\* submitted is the same list of exactly five instructions in the order
\* account allocation, mint initialisation, associated-account creation,
\* mint-to, metadata creation, all on the allocated mint, and it goes to the
\* ledger as one transaction.
C1_FiveInstructionsInOrder ==
  /\ instructions # <<>> => Kinds(instructions) = InstructionKinds /\ OnOneMint(instructions)
  /\ transaction # NoTransaction => transaction.instructions = instructions /\ Kinds(transaction.instructions) = InstructionKinds
  /\ ledgerTx.status # "none" => ledgerTx.instructions = instructions /\ Kinds(ledgerTx.instructions) = InstructionKinds /\ SendCount = 1

C1_Witness == ledgerTx.status = "ok" /\ Len(ledgerTx.instructions) = 5 /\ token.decimals.val = 0

\* The ledger has reported an execution failure of the transaction.
LedgerReportedFailure ==
  \/ error.at = "sendTransaction" /\ error.message \in SimulationErrors
  \/ confirmErr # ""

\* C2: once the ledger has reported an execution failure of the submitted
\* transaction, in the preflight simulation of the submission or in the
\* result of the confirmation, the run does not announce the token as
\* created, does not submit again, and ends with exit code 1 showing the
\* reported reason.
C2_RejectionIsTerminal ==
  LedgerReportedFailure =>
    /\ ~announced
    /\ SendCount = 1
    /\ pc = "done" => exitCode = 1 /\ error.message \in SimulationErrors \cup ExecutionErrors

\* C3: the lastValidBlockHeight handed to confirmTransaction is the one
\* getLatestBlockhash returned with the blockhash of the message.
C3_CeilingIsTheAssembledOne ==
  strategy # NoStrategy =>
    /\ strategy.blockhash = latestBlockhash.blockhash
    /\ strategy.lastValidBlockHeight = latestBlockhash.lastValidBlockHeight

\* The errors of an expired blockhash, and the situation they report.
ExpiryMessages == {"BlockhashNotFound", "block height exceeded"}

CeilingPassedNoLanding ==
  /\ transaction # NoTransaction
  /\ SendCount = 1
  /\ ledgerTx.status \in {"none", "pending"}
  /\ height > latestBlockhash.lastValidBlockHeight

\* C4: sendTransaction is called at most once in a run; a run that ends
\* with an expiry error (the blockhash no longer known at submission, or the
\* block height exceeded while waiting) ends with exit code 1 and without
\* the success message, the transaction has not landed and its blockhash is
\* really past its validity; and a run that has ended for another reason
\* than a failed request, after the ceiling passed with the transaction not
\* landed, has ended with an expiry error.
C4_ExpiryNotResubmitted ==
  /\ SendCount <= 1
  /\ error.message \in ExpiryMessages => pc = "done" /\ exitCode = 1 /\ ~announced /\ CeilingPassedNoLanding
  /\ pc = "done" /\ CeilingPassedNoLanding /\ error.message # "fetch failed" => error.message \in ExpiryMessages

C4_Witness == error.message = "block height exceeded" /\ SendCount = 1 /\ ledgerTx.status = "pending"

\* What the prompts let through, read as main reads the answers.
AnswersValid(ans) ==
  /\ \E d \in {ParseInt(ans.decimals)} : ~d.nan /\ d.val \in 0..9
  /\ \E x \in {ParseFloat(ans.supply)} : ~x.nan /\ ~x.neg /\ x.m # <<>>
  /\ Len(Trim(ans.tokenName)) >= 1 /\ Len(ans.tokenName) <= 32
  /\ Len(Trim(ans.symbol)) >= 1 /\ Len(ans.symbol) <= 10
  /\ UrlParses(ans.image)
  /\ \E r \in {ParseInt(ans.royalty)} : ~r.nan /\ r.val \in 0..10000
  /\ ans.secretKey.b58 /\ ans.secretKey.bytes = 64

\* C5: when the first network call is made every prompt has been answered
\* and every answer is valid: decimals 0..9, supply above zero, a name of 1
\* to 32 characters, a symbol of 1 to 10, an image URL that parses, a
\* royalty of 0..10000 and a secret key that decodes to 64 bytes; a prompt
\* that has just rejected an input has made no network call.
C5_ValidationBeforeNetwork ==
  /\ netLog # <<>> => pc # "ask" /\ question = Len(Questions) + 1 /\ AnswersValid(answers)
  /\ promptError # "" => netLog = <<>> /\ pc = "ask"

C5_Witness == netLog = <<"getMinimumBalanceForRentExemptMint">> /\ answers.royalty = DefaultRoyalty /\ answers.supply = <<"1", ".", "5">>

\* The outcome a run has determined for its submitted transaction.
Submitted == txid # ""

TerminalOutcome ==
  IF announced THEN "Confirmed"
  ELSE IF error.message \in ExpiryMessages THEN "Expired"
  ELSE IF error.message \in SimulationErrors \cup ExecutionErrors THEN "Rejected"
  ELSE "none"

\* C6: a run that has ended after the submission has ended in one of
\* Confirmed (success announced), Expired (expiry error) or Rejected (the
\* ledger's failure reported).
C6_TerminalOutcomeReached == pc = "done" /\ Submitted => TerminalOutcome \in {"Confirmed", "Expired", "Rejected"}

\* C7: a run that reports success reports a non-empty signature, a fee
\* above zero and a block time other than zero, those of the landed
\* transaction.
C7_SuccessReportsFee ==
  pc = "done" /\ exitCode = 0 =>
    /\ report.printed /\ report.txid # ""
    /\ report.fees > 0 /\ report.fees = ledgerTx.fee
    /\ report.blockTime # 0 /\ report.blockTime = ledgerTx.blockTime

\* ------------------------------------------------------------------------
\* Properties of validateDecimals (specification SpecDecimals).

DecimalDigits == <<"0", "1", "2", "3", "4", "5", "6", "7", "8", "9">>

DigitOf(c) == (CHOOSE i \in 1..10 : DecimalDigits[i] = c) - 1

Unsigned(t) == IF t # <<>> /\ t[1] \in {"+", "-"} THEN Tail(t) ELSE t

AllDigits(t) == t # <<>> /\ \A i \in 1..Len(t) : \E k \in 1..10 : DecimalDigits[k] = t[i]

RECURSIVE DigitsDenote(_)
DigitsDenote(t) == IF t = <<>> THEN 0 ELSE 10 * DigitsDenote(SubSeq(t, 1, Len(t) - 1)) + DigitOf(t[Len(t)])

\* The text is an integer numeral (surrounding blanks and a sign allowed).
IsIntegerText(s) == AllDigits(Unsigned(Trim(s)))

IntegerDenoted(s) ==
  LET t == Trim(s)
  IN IF t[1] = "-" THEN 0 - DigitsDenote(Unsigned(t)) ELSE DigitsDenote(Unsigned(t))

\* C9: validateDecimals accepts a text exactly when the text is an integer
\* numeral with a value of 0 to 9, a rejection carries a reason, and the
\* decimals of the mint initialisation are the accepted integer.
C9_AcceptsExactlyIntegers ==
  fn.op = "validateDecimals" /\ fn.stage # "input" =>
    /\ fn.verdict.ok <=> IsIntegerText(fn.value) /\ IntegerDenoted(fn.value) \in 0..9
    /\ ~fn.verdict.ok => fn.verdict.reason # ""
    /\ fn.stage = "used" => ~fn.decimals.nan /\ fn.decimals.val = IntegerDenoted(fn.value)

\* ------------------------------------------------------------------------
\* Properties of the instruction list (specification SpecBuild).

\* C8: for an accepted supply and decimals, the amount of the mint-to
\* instruction is an integer, equal to the decimal value of the supply text
\* times 10^decimals with nothing rounded, and it fits the 64 bits of a
\* token amount.
C8_MintAmountExact ==
  fn.op = "createMintTokenTransaction" /\ fn.stage = "built" =>
    \E amount \in {fn.built.instructions[4].amount}, lit \in {DecimalLiteral(fn.supply)}, d \in {ParseInt(fn.decimals)} :
      /\ ~amount.nan /\ ~amount.neg
      /\ DoubleIsInteger(amount)
      /\ DoubleEqualsDecimal(amount, lit.n, lit.x + d.val)
      /\ BBitLen(DoubleToBig(amount)) <= 64

\* C10: for any payer and destination wallet, the owner named in the
\* associated-account creation is the owner its address was derived from,
\* and the mint-to instruction targets that address.
C10_OwnerIsDerivationOwner ==
  fn.op = "createMintTokenTransaction" /\ fn.stage = "built" =>
    \E create \in {fn.built.instructions[3]}, mintTo \in {fn.built.instructions[4]} :
      /\ create.associatedToken = getAssociatedTokenAddress(create.mint, create.owner)
      /\ mintTo.destination = getAssociatedTokenAddress(mintTo.mint, create.owner)

====
